---------------------------- MODULE Spec2Model ----------------------------
(***************************************************************************)
(* Model of ProstateCancerClassificationModel/main_inWorking.ipynb: the    *)
(* notebook's data preparation (tile glob, metadata filtering, the split   *)
(* per data provider, concatenation) and the DataGenerator batch loader.   *)
(*                                                                         *)
(* A metadata row is a record [index, image_id, data_provider, isup_grade];*)
(* index is the pandas index label, which filtering, splitting and         *)
(* concatenation preserve.  The gleason_score column is read by no cell    *)
(* and is left out.  A tile file TRAIN_IMG_DIR/<image_id>_<i>.png is the   *)
(* pair <<image_id, i>>; pixel values are not modelled.                    *)
(***************************************************************************)
EXTENDS Integers, Sequences, FiniteSets, TLC

VARIABLES
    files,            \* image_id -> set of tile numbers i with <image_id>_<i>.png on disk
    BATCH_SIZE,       \* the in-cell constant BATCH_SIZE
    pc,               \* the next notebook cell to run ("error": a cell raised)
    err,              \* the exception that stopped the notebook, or "none"
    df,               \* the metadata table as loaded (df = pd.DataFrame(train_csv))
    img_ids,          \* the image_id column of the loaded table (img_ids = train_csv['image_id'])
    valid_images,     \* image ids whose <id>_0.png the glob found
    train_csv,        \* the metadata table, narrowed by the filter loop
    radboud_csv,
    karolinska_csv,
    r_train, r_test,
    k_train, k_test,
    train_df, valid_df,
    STEPS_PER_EPOCH,
    VALIDATION_STEPS,
    generators,       \* generator name -> DataGenerator object
    seed_perm,        \* n -> the permutation RandomState(SEED) draws for n rows (once known)
    prev_split,       \* what the split cell assigned in its previous execution, once it is run again
    call,             \* the last DataGenerator method call
    ret,              \* what that call returned or raised
    delivered         \* batch index -> the rows its read delivered, in the pass the reader threads are in

vars == <<files, BATCH_SIZE, pc, err, df, img_ids, valid_images, train_csv,
          radboud_csv, karolinska_csv, r_train, r_test, k_train, k_test,
          train_df, valid_df, STEPS_PER_EPOCH, VALIDATION_STEPS, generators,
          seed_perm, prev_split, call, ret, delivered>>

pipelineVars == <<pc, err, df, img_ids, valid_images, train_csv, radboud_csv, karolinska_csv,
                  r_train, r_test, k_train, k_test, train_df, valid_df,
                  STEPS_PER_EPOCH, VALIDATION_STEPS, seed_perm, prev_split>>

inputVars == <<files, BATCH_SIZE>>

-----------------------------------------------------------------------------
(* Program constants *)

CLASSES_NUM == 6
N == 12
IMG_DIM == <<1536, 128>>
TRAIN_IMG_DIR == "./DataFrames/PandaTiles/train"
TRAIN_MASKS_DIR == "./DataFrames/PandaTiles/masks"

(* Bounds of the model *)

MaxRows == 3         \* rows of a metadata table (filter and generator specifications)
MaxGradeRows == 2    \* rows of a generator's table whose grades range over every class
MaxSplitRows == 5    \* rows of a metadata table (split specification)
MaxPipelineRows == 4 \* rows of a metadata table (whole notebook)
MaxBatch == 2        \* largest batch size
MaxIndex == 3        \* largest batch index requested
MaxStratum == 6      \* radboud rows of a table (strata specification)
MaxFitStratum == 5   \* radboud rows of a table (training-call specification)
MaxOtherStratum == 2 \* karolinska rows of a table (strata and training-call specifications)

Ids == {"a", "b"}
Providers == {"radboud", "karolinska", "other"}
Grades == 0 .. (CLASSES_NUM - 1)
Tiles == 0 .. (N - 1)

\* What the tile directory may hold for one image id: every tile, only tile 0,
\* every tile but tile 0, nothing.
TileSetChoices == {Tiles, {0}, Tiles \ {0}, {}}

-----------------------------------------------------------------------------
(* Helpers *)

Range(s) == {s[i] : i \in DOMAIN s}

Min(a, b) == IF a <= b THEN a ELSE b

\* Python s[a:b] for 0 <= a, 0 <= b (0-based, end exclusive, clamped to len(s)).
PySlice(s, a, b) == SubSeq(s, a + 1, Min(b, Len(s)))

\* range(n) as the sequence 0, 1, .., n-1.
PyRange(n) == [i \in 1 .. n |-> i - 1]

\* A table with a fresh RangeIndex, as pd.read_csv builds it.
MakeTable(content) ==
    [i \in DOMAIN content |->
        [index |-> i - 1,
         image_id |-> content[i].image_id,
         data_provider |-> content[i].data_provider,
         isup_grade |-> content[i].isup_grade]]

TablesOver(rowSet, maxRows) ==
    {MakeTable(c) : c \in UNION {[1 .. n -> rowSet] : n \in 0 .. maxRows}}

NoTable == <<>>
NoSplit == [run |-> "none"]
NoCall == [op |-> "none"]
NoRet == [kind |-> "none"]
NoGenerators == [g \in {} |-> 0]
NoDelivery == [i \in {} |-> <<>>]

-----------------------------------------------------------------------------
(* class DataGenerator *)

\* DataGenerator.__init__: self.indices = range(df.shape[0]).
DataGenerator(image_shape, batch_size, table, img_dir, mask_dir, is_training) ==
    [image_shape |-> image_shape,
     batch_size |-> batch_size,
     df |-> table,
     img_dir |-> img_dir,
     mask_dir |-> mask_dir,
     is_training |-> is_training,
     indices |-> PyRange(Len(table))]

\* A plausible slip: rounding the batch count up.
LenCeil(self) == (Len(self.df) + self.batch_size - 1) \div self.batch_size

\* A plausible slip: the number of rows for the number of batches.
LenRows(self) == Len(self.df)

\* DataGenerator.__len__: self.df.shape[0] // self.batch_size.
__len__(self) == Len(self.df) \div self.batch_size

\* A plausible slip: the slice end taken inclusive.
BatchIndicesInclusive(self, index) ==
    PySlice(self.indices, index * self.batch_size, (index + 1) * self.batch_size + 1)

\* batch_indices = self.indices[index*bs : (index+1)*bs]
BatchIndices(self, index) ==
    PySlice(self.indices, index * self.batch_size, (index + 1) * self.batch_size)

\* image_ids = self.df['image_id'].iloc[batch_indices].values  (iloc is positional)
BatchImageIds(self, index) ==
    LET bi == BatchIndices(self, index)
    IN  [k \in DOMAIN bi |-> self.df[bi[k] + 1].image_id]

\* self.df[self.df['image_id'] == image_id]['isup_grade'].values[0]:
\* the grade of the first row of the table that carries the image id.
LabelOf(table, image_id) ==
    LET first == CHOOSE i \in DOMAIN table :
                    /\ table[i].image_id = image_id
                    /\ \A j \in DOMAIN table : table[j].image_id = image_id => i <= j
    IN  table[first].isup_grade

BatchLabels(self, index) ==
    LET ids == BatchImageIds(self, index)
    IN  [k \in DOMAIN ids |-> LabelOf(self.df, ids[k])]

\* A plausible slip: the hot position counted from 1.
OneHotFromOne(label, depth) == [i \in 1 .. depth |-> IF i = label THEN 1 ELSE 0]

\* tf.one_hot(label, depth): 1 at (0-based) position label, 0 elsewhere; position
\* p of the vector is element p+1 of the sequence.
tf_one_hot(label, depth) == [i \in 1 .. depth |-> IF i - 1 = label THEN 1 ELSE 0]

\* np.argmax(v): the (0-based) position of the first largest element.
np_argmax(v) ==
    (CHOOSE i \in DOMAIN v :
        /\ \A j \in DOMAIN v : v[j] <= v[i]
        /\ \A j \in DOMAIN v : v[j] = v[i] => i <= j) - 1

\* A plausible slip: the tile numbers counted from 1.
TileNamesFromOne(image_id) == [i \in 1 .. N |-> <<image_id, i>>]

\* fnames = [image_id+'_'+str(i)+'.png' for i in range(N)]
TileNames(image_id) == [i \in 1 .. N |-> <<image_id, i - 1>>]

\* A plausible slip: only tile 0 is looked for, as in the filter cell.
GetImagesRaisesTileZero(image_id) == 0 \notin files[image_id]

\* __getimages__ opens the N tile files in order; Image.open raises
\* FileNotFoundError at the first one that is missing.
GetImagesRaises(image_id) ==
    \E i \in Tiles : i \notin files[image_id]

\* The paths __getimages__ hands to Image.open, in call order:
\* os.path.join(self.img_dir, fn) for fn in fnames, up to and including the
\* first file that is missing.  self.mask_dir is read by no method.
OpenedBy(self, image_id) ==
    LET names == TileNames(image_id)
        missing == {i \in DOMAIN names : names[i][2] \notin files[image_id]}
        last == IF missing = {}
                THEN Len(names)
                ELSE CHOOSE i \in missing : \A j \in missing : i <= j
    IN  [i \in 1 .. last |-> <<self.img_dir, names[i]>>]

\* The paths opened by [self.__getimages__(image_id) for image_id in image_ids]:
\* sample after sample, ending in the sample that raises.
RECURSIVE BatchOpened(_, _)
BatchOpened(self, ids) ==
    IF ids = <<>>
    THEN <<>>
    ELSE IF GetImagesRaises(Head(ids))
    THEN OpenedBy(self, Head(ids))
    ELSE OpenedBy(self, Head(ids)) \o BatchOpened(self, Tail(ids))

\* __getimages__: the stacked tensor of one sample, as the tiles it is built
\* from: np.stack(images).reshape(1, 1536, 128, 3) puts tile i in rows
\* 128*i .. 128*i+127, position i of the N tiles.
__getimages__(image_id) == TileNames(image_id)

\* np.squeeze drops every axis of length 1.
np_squeeze(shape) == SelectSeq(shape, LAMBDA d : d # 1)

\* What DataGenerator.__getitem__(index), index >= 0, returns or raises, with
\* the files it opened on the way:
\*  - a missing tile of a sample of the slice: FileNotFoundError;
\*  - an empty slice: tf.one_hot([]) or np.stack([]) raises (a library error,
\*    whichever comes first in the installed versions);
\*  - otherwise the batch, which is short when the slice is short.
GetItemResult(g, index) ==
    LET self == generators[g]
        ids == BatchImageIds(self, index)
        labels == BatchLabels(self, index)
    IN  /\ call' = [op |-> "__getitem__", gen |-> g, index |-> index]
        /\ IF \E k \in DOMAIN ids : GetImagesRaises(ids[k])
           THEN ret' = [kind |-> "raise", error |-> "FileNotFoundError",
                        opened |-> BatchOpened(self, ids)]
           ELSE IF Len(ids) = 0
           THEN \E e \in {"InvalidArgumentError", "ValueError"} :
                    ret' = [kind |-> "raise", error |-> e, opened |-> <<>>]
           ELSE ret' = [kind |-> "batch",
                        images |-> [k \in DOMAIN ids |-> __getimages__(ids[k])],
                        image_shape |-> np_squeeze(<<Len(ids), IMG_DIM[1], IMG_DIM[2], 3>>),
                        labels |-> [k \in DOMAIN labels |-> tf_one_hot(labels[k], CLASSES_NUM)],
                        opened |-> BatchOpened(self, ids)]

\* A plausible slip: a read that consumes the order, moving its head to the end.
GetItemConsuming(g, index) ==
    /\ GetItemResult(g, index)
    /\ generators' =
          [generators EXCEPT ![g].indices =
              IF @ = <<>> THEN @ ELSE Tail(@) \o <<Head(@)>>]
    /\ UNCHANGED <<pipelineVars, inputVars>>

\* DataGenerator.__getitem__(index): it assigns no attribute of self and no
\* global.
__getitem__(g, index) ==
    /\ GetItemResult(g, index)
    /\ UNCHANGED <<generators, pipelineVars, inputVars>>

\* np.random.shuffle(x) on a range object: the first swap x[i], x[j] = x[j], x[i]
\* raises TypeError ('range' object does not support item assignment); with
\* fewer than two elements there is no swap.
np_random_shuffle_raises(x) == Len(x) >= 2

\* A plausible variation: the order held in a list or an array, so that the
\* shuffle goes through in training mode and leaves any permutation of it.
EpochStartShuffling(g) ==
    LET self == generators[g]
    IN  /\ call' = [op |-> "on_epoch_start", gen |-> g]
        /\ ret' = [kind |-> "return"]
        /\ IF self.is_training
           THEN \E p \in Permutations(1 .. Len(self.indices)) :
                    generators' =
                        [generators EXCEPT ![g].indices =
                            [i \in 1 .. Len(self.indices) |-> self.indices[p[i]]]]
           ELSE UNCHANGED generators
        /\ UNCHANGED <<pipelineVars, inputVars>>

\* DataGenerator.on_epoch_start
on_epoch_start(g) ==
    LET self == generators[g]
    IN  /\ call' = [op |-> "on_epoch_start", gen |-> g]
        /\ IF self.is_training /\ np_random_shuffle_raises(self.indices)
           THEN ret' = [kind |-> "raise", error |-> "TypeError"]
           ELSE ret' = [kind |-> "return"]
        /\ UNCHANGED <<generators, pipelineVars, inputVars>>

\* len(generator)
CallLen(g) ==
    /\ call' = [op |-> "__len__", gen |-> g]
    /\ ret' = [kind |-> "return", value |-> __len__(generators[g])]
    /\ UNCHANGED <<generators, pipelineVars, inputVars>>

-----------------------------------------------------------------------------
(* The notebook's cells *)

\* Cell "Renaming files for categorisation":
\* valid_images = tf.io.gfile.glob(TRAIN_IMG_DIR + '/*_0.png'); img_ids = train_csv['image_id'].
\* The glob is taken to return each path as TRAIN_IMG_DIR + '/' + name, the form
\* the filter loop builds, so the path of <id>_0.png is in the list iff tile 0 of
\* <id> is on disk.
GlobCell ==
    /\ pc = "glob"
    /\ valid_images' = {id \in DOMAIN files : 0 \in files[id]}
    /\ img_ids' = [i \in DOMAIN train_csv |-> train_csv[i].image_id]
    /\ pc' = "filter"
    /\ UNCHANGED <<err, df, train_csv, radboud_csv, karolinska_csv, r_train, r_test,
                   k_train, k_test, train_df, valid_df, STEPS_PER_EPOCH,
                   VALIDATION_STEPS, seed_perm, prev_split, generators, call, ret,
                   inputVars, delivered>>

\* A plausible slip: the index reset after the rows are dropped
\* (.reset_index(drop=True)), so retained rows lose their index labels.
FilterLoopReindexed(table, ids, found) ==
    MakeTable(SelectSeq(table, LAMBDA row : row.image_id \in found))

\* for img_id in img_ids:
\*     if file_name not in valid_images: train_csv = train_csv[train_csv['image_id'] != img_id]
RECURSIVE FilterLoop(_, _, _)
FilterLoop(table, ids, found) ==
    IF ids = <<>>
    THEN table
    ELSE LET img_id == Head(ids)
             narrowed == IF img_id \notin found
                         THEN SelectSeq(table, LAMBDA row : row.image_id # img_id)
                         ELSE table
         IN  FilterLoop(narrowed, Tail(ids), found)

\* radboud_csv = train_csv[train_csv['data_provider'] == 'radboud']
RadboudRows(table) == SelectSeq(table, LAMBDA row : row.data_provider = "radboud")

\* karolinska_csv = train_csv[train_csv['data_provider'] != 'radboud']
KarolinskaRows(table) == SelectSeq(table, LAMBDA row : row.data_provider # "radboud")

\* Cell "Filing started": the filter loop and the two provider tables.
FilterCell ==
    /\ pc = "filter"
    /\ df' = train_csv
    /\ train_csv' = FilterLoop(train_csv, img_ids, valid_images)
    /\ radboud_csv' = RadboudRows(train_csv')
    /\ karolinska_csv' = KarolinskaRows(train_csv')
    /\ pc' = "split"
    /\ UNCHANGED <<err, img_ids, valid_images, r_train, r_test, k_train, k_test,
                   train_df, valid_df, STEPS_PER_EPOCH, VALIDATION_STEPS, seed_perm,
                   prev_split, generators, call, ret, inputVars, delivered>>

\* Plausible slips in the test share: rounded down; a quarter instead of a fifth;
\* rounded to the nearest integer.
NTestFloor(n) == n \div 5
NTestQuarter(n) == (n + 3) \div 4
NTestNearest(n) == (n + 2) \div 5

\* sklearn's train_test_split(test_size=0.2): n_test = ceil(0.2 * n_samples).
\* (0.2 * n in floating point rounds up to the same integer as n / 5 for all
\* n below 200.)
NTest(n) == (n + 4) \div 5

\* train_size=None: n_train = n_samples - n_test.
NTrain(n) == n - NTest(n)

\* A plausible slip: only an empty input is rejected.
SplitRaisesOnEmpty(n) == n = 0

\* "With n_samples=.., test_size=0.2 and train_size=None, the resulting train set
\* will be empty": ValueError when n_train = 0, which is n = 0 or n = 1.
SplitRaises(n) == NTrain(n) = 0

\* ind_test = permutation[:n_test]
TestPart(table, p) == [i \in 1 .. NTest(Len(table)) |-> table[p[i]]]

\* A plausible slip: the train part taken from the start of the permutation.
TrainPartFromStart(table, p) == [i \in 1 .. NTrain(Len(table)) |-> table[p[i]]]

\* ind_train = permutation[n_test:(n_test + n_train)]
TrainPart(table, p) == [i \in 1 .. NTrain(Len(table)) |-> table[p[NTest(Len(table)) + i]]]

\* A plausible slip: random_state left out, so every call draws from the
\* global generator and any permutation can come out.
UnseededPermutation(known, n, p) == p \in Permutations(1 .. n)

\* random_state=SEED: each call builds RandomState(SEED) anew, so the permutation
\* of n rows is a function of SEED and n: unknown until first drawn, the same
\* ever after.
RandomStatePermutation(known, n, p) ==
    IF n \in DOMAIN known THEN p = known[n] ELSE p \in Permutations(1 .. n)

Remember(known, n, p) ==
    [m \in (DOMAIN known) \cup {n} |-> IF m = n THEN p ELSE known[m]]

\* The body of cell "Spliting Data...": the two train_test_split calls.
RunSplit ==
    /\ LET nr == Len(radboud_csv)
           nk == Len(karolinska_csv)
       IN  IF SplitRaises(nr)
           THEN /\ pc' = "error"
                /\ err' = "ValueError"
                /\ UNCHANGED <<r_train, r_test, k_train, k_test, seed_perm>>
           ELSE \E pr \in Permutations(1 .. nr) :
                  /\ RandomStatePermutation(seed_perm, nr, pr)
                  /\ r_train' = TrainPart(radboud_csv, pr)
                  /\ r_test' = TestPart(radboud_csv, pr)
                  /\ IF SplitRaises(nk)
                     THEN /\ pc' = "error"
                          /\ err' = "ValueError"
                          /\ seed_perm' = Remember(seed_perm, nr, pr)
                          /\ UNCHANGED <<k_train, k_test>>
                     ELSE \E pk \in Permutations(1 .. nk) :
                            /\ RandomStatePermutation(Remember(seed_perm, nr, pr), nk, pk)
                            /\ k_train' = TrainPart(karolinska_csv, pk)
                            /\ k_test' = TestPart(karolinska_csv, pk)
                            /\ seed_perm' = Remember(Remember(seed_perm, nr, pr), nk, pk)
                            /\ pc' = "concat"
                            /\ UNCHANGED err
    /\ UNCHANGED <<df, img_ids, valid_images, train_csv, radboud_csv, karolinska_csv,
                   train_df, valid_df, STEPS_PER_EPOCH, VALIDATION_STEPS, generators,
                   call, ret, inputVars, delivered>>

\* Cell "Spliting Data...", run in its turn.
SplitCell ==
    /\ pc = "split"
    /\ RunSplit
    /\ UNCHANGED prev_split

\* The same cell executed again before the next cell runs.
SplitCellAgain ==
    /\ pc = "concat"
    /\ prev_split' = [run |-> "done", r_train |-> r_train, r_test |-> r_test,
                      k_train |-> k_train, k_test |-> k_test]
    /\ RunSplit

\* pd.concat([a, b])
pd_concat(a, b) == a \o b

\* Cell "Concatenating data"
ConcatCell ==
    /\ pc = "concat"
    /\ train_df' = pd_concat(r_train, k_train)
    /\ valid_df' = pd_concat(r_test, k_test)
    /\ pc' = "constants"
    /\ UNCHANGED <<err, df, img_ids, valid_images, train_csv, radboud_csv,
                   karolinska_csv, r_train, r_test, k_train, k_test, STEPS_PER_EPOCH,
                   VALIDATION_STEPS, seed_perm, prev_split, generators, call, ret,
                   inputVars, delivered>>

\* Cell "Specifying variables"
ConstantsCell ==
    /\ pc = "constants"
    /\ STEPS_PER_EPOCH' = Len(train_df) \div BATCH_SIZE
    /\ VALIDATION_STEPS' = Len(valid_df) \div BATCH_SIZE
    /\ pc' = "generators"
    /\ UNCHANGED <<err, df, img_ids, valid_images, train_csv, radboud_csv,
                   karolinska_csv, r_train, r_test, k_train, k_test, train_df, valid_df,
                   seed_perm, prev_split, generators, call, ret, inputVars, delivered>>

\* Cell constructing train_generator and valid_generator (is_training defaults to True).
GeneratorsCell ==
    /\ pc = "generators"
    /\ generators' =
          [g \in {"train_generator", "valid_generator"} |->
              DataGenerator(IMG_DIM, BATCH_SIZE,
                            IF g = "train_generator" THEN train_df ELSE valid_df,
                            TRAIN_IMG_DIR, TRAIN_MASKS_DIR, TRUE)]
    /\ pc' = "ready"
    /\ UNCHANGED <<err, df, img_ids, valid_images, train_csv, radboud_csv,
                   karolinska_csv, r_train, r_test, k_train, k_test, train_df, valid_df,
                   STEPS_PER_EPOCH, VALIDATION_STEPS, seed_perm, prev_split, call, ret,
                   inputVars, delivered>>

GetItemStep ==
    /\ \E g \in DOMAIN generators : \E index \in 0 .. MaxIndex : __getitem__(g, index)
    /\ UNCHANGED delivered

EpochStartStep ==
    /\ \E g \in DOMAIN generators : on_epoch_start(g)
    /\ UNCHANGED delivered

LenStep ==
    /\ \E g \in DOMAIN generators : CallLen(g)
    /\ UNCHANGED delivered

\* model.fit(train_generator, steps_per_epoch=STEPS_PER_EPOCH,
\*           validation_data=valid_generator, validation_steps=VALIDATION_STEPS):
\* a request of the training loop the call describes, which asks train_generator
\* for the batches 0 .. STEPS_PER_EPOCH-1 of an epoch and valid_generator for
\* the batches 0 .. VALIDATION_STEPS-1.
FitRequest ==
    /\ pc = "ready"
    /\ \E g \in {"train_generator", "valid_generator"} \cap DOMAIN generators :
         LET steps == IF g = "train_generator" THEN STEPS_PER_EPOCH ELSE VALIDATION_STEPS
         IN  \E index \in 0 .. (steps - 1) : __getitem__(g, index)
    /\ UNCHANGED delivered

\* Reader threads going through one pass over a generator, one read per batch
\* index 0 .. len-1 in any order, while another thread may call the epoch hook
\* at any time (EpochStartStep).  A read touches the object's mutable state in
\* one statement only, the slice of self.indices (line 493); everything after
\* it works on locals and on the table, which nothing assigns.  So a read is
\* one step, taken at its slice.
ConcurrentRead ==
    \E g \in DOMAIN generators :
        \E index \in (0 .. (__len__(generators[g]) - 1)) \ DOMAIN delivered :
            /\ __getitem__(g, index)
            /\ delivered' =
                  [i \in DOMAIN delivered \cup {index} |->
                      IF i = index THEN BatchIndices(generators[g], index)
                                   ELSE delivered[i]]

\* The pass is complete; the readers start the next one.
NextPass ==
    /\ \E g \in DOMAIN generators :
          /\ __len__(generators[g]) >= 1
          /\ DOMAIN delivered = 0 .. (__len__(generators[g]) - 1)
    /\ delivered' = NoDelivery
    /\ UNCHANGED <<generators, pipelineVars, inputVars, call, ret>>

-----------------------------------------------------------------------------
(* Initial states *)

\* Everything the cells have not assigned yet.
Unassigned ==
    /\ err = "none"
    /\ df = NoTable
    /\ img_ids = <<>>
    /\ valid_images = {}
    /\ radboud_csv = NoTable /\ karolinska_csv = NoTable
    /\ r_train = NoTable /\ r_test = NoTable
    /\ k_train = NoTable /\ k_test = NoTable
    /\ train_df = NoTable /\ valid_df = NoTable
    /\ STEPS_PER_EPOCH = 0 /\ VALIDATION_STEPS = 0
    /\ seed_perm = [n \in {} |-> <<>>]
    /\ prev_split = NoSplit
    /\ call = NoCall
    /\ ret = NoRet
    /\ delivered = NoDelivery

\* The generator reads image_id and isup_grade only.  Its tables are the tables
\* of up to MaxRows rows over the lowest and the highest grade, and the tables
\* of up to MaxGradeRows rows over every grade.
GenRows == [image_id : Ids, data_provider : {"radboud"}, isup_grade : {0, CLASSES_NUM - 1}]
GradeRows == [image_id : Ids, data_provider : {"radboud"}, isup_grade : Grades]
GenTables == TablesOver(GenRows, MaxRows) \cup TablesOver(GradeRows, MaxGradeRows)

\* The DataGenerator class on its own: any table, batch size and mode.
InitGen ==
    /\ files \in [Ids -> {Tiles, {0}}]
    /\ BATCH_SIZE \in 1 .. MaxBatch
    /\ train_csv \in GenTables
    /\ pc = "ready"
    /\ Unassigned
    /\ \E t \in BOOLEAN :
         generators = [g \in {"generator"} |->
                          DataGenerator(IMG_DIM, BATCH_SIZE, train_csv, TRAIN_IMG_DIR,
                                        TRAIN_MASKS_DIR, t)]

NextGen == GetItemStep \/ EpochStartStep \/ LenStep

SpecGen == InitGen /\ [][NextGen]_vars

\* The DataGenerator class under concurrent callers: every tile on disk.
InitConc ==
    /\ files = [id \in Ids |-> Tiles]
    /\ BATCH_SIZE \in 1 .. MaxBatch
    /\ train_csv \in TablesOver(GenRows, MaxRows)
    /\ pc = "ready"
    /\ Unassigned
    /\ \E t \in BOOLEAN :
         generators = [g \in {"generator"} |->
                          DataGenerator(IMG_DIM, BATCH_SIZE, train_csv, TRAIN_IMG_DIR,
                                        TRAIN_MASKS_DIR, t)]

NextConc == ConcurrentRead \/ EpochStartStep \/ NextPass

SpecConc == InitConc /\ [][NextConc]_vars

\* The filter cells: small tables, every kind of tile directory.
FilterRows == [image_id : Ids, data_provider : Providers, isup_grade : {0, CLASSES_NUM - 1}]

InitFilter ==
    /\ files \in [Ids -> TileSetChoices]
    /\ BATCH_SIZE = 32
    /\ train_csv \in TablesOver(FilterRows, MaxRows)
    /\ pc = "glob"
    /\ generators = NoGenerators
    /\ Unassigned

NextFilter == GlobCell \/ FilterCell

SpecFilter == InitFilter /\ [][NextFilter]_vars

\* The split cells: larger tables over three provider labels; the tile
\* directory holds every tile, or no tile of image "b".
SplitRows == [image_id : Ids, data_provider : Providers, isup_grade : {0}]
SplitFiles == {[id \in Ids |-> Tiles], [id \in Ids |-> IF id = "a" THEN Tiles ELSE {}]}

InitSplit ==
    /\ files \in SplitFiles
    /\ BATCH_SIZE = 32
    /\ train_csv \in TablesOver(SplitRows, MaxSplitRows)
    /\ pc = "glob"
    /\ generators = NoGenerators
    /\ Unassigned

NextSplit == GlobCell \/ FilterCell \/ SplitCell \/ SplitCellAgain \/ ConcatCell

SpecSplit == InitSplit /\ [][NextSplit]_vars

\* The end-to-end scenario: 10 rows, 5 per provider, every tile on disk, batch size 2.
E2ETable ==
    MakeTable([i \in 1 .. 10 |->
                [image_id |-> IF i % 2 = 0 THEN "a" ELSE "b",
                 data_provider |-> IF i <= 5 THEN "radboud" ELSE "karolinska",
                 isup_grade |-> i % CLASSES_NUM]])

InitE2E ==
    /\ files = [id \in Ids |-> Tiles]
    /\ BATCH_SIZE = 2
    /\ train_csv = E2ETable
    /\ pc = "glob"
    /\ generators = NoGenerators
    /\ Unassigned

\* The whole notebook, its cells run in order.
Next ==
    \/ GlobCell
    \/ FilterCell
    \/ SplitCell
    \/ ConcatCell
    \/ ConstantsCell
    \/ GeneratorsCell
    \/ GetItemStep
    \/ EpochStartStep
    \/ LenStep
    \/ FitRequest

SpecE2E == InitE2E /\ [][Next]_vars

\* The whole notebook over tables of the two providers of the data set.
PipelineRows == [image_id : Ids, data_provider : {"radboud", "karolinska"}, isup_grade : {0}]

Init ==
    /\ files \in SplitFiles
    /\ BATCH_SIZE \in 1 .. MaxBatch
    /\ train_csv \in TablesOver(PipelineRows, MaxPipelineRows)
    /\ pc = "glob"
    /\ generators = NoGenerators
    /\ Unassigned

Spec == Init /\ [][Next]_vars

\* A table of r radboud rows (image "a") followed by k karolinska rows (image
\* "b"); a stratum is emptied when no tile of its image is on disk.
StrataTable(r, k) ==
    MakeTable([i \in 1 .. (r + k) |->
                [image_id |-> IF i <= r THEN "a" ELSE "b",
                 data_provider |-> IF i <= r THEN "radboud" ELSE "karolinska",
                 isup_grade |-> i % CLASSES_NUM]])

\* The split cells over strata large enough for a validation part of more
\* than one row.
InitStrata ==
    /\ files \in SplitFiles
    /\ BATCH_SIZE = 32
    /\ train_csv \in {StrataTable(r, k) : r \in 0 .. MaxStratum, k \in 0 .. MaxOtherStratum}
    /\ pc = "glob"
    /\ generators = NoGenerators
    /\ Unassigned

NextStrata == GlobCell \/ FilterCell \/ SplitCell \/ ConcatCell

SpecStrata == InitStrata /\ [][NextStrata]_vars

\* The notebook from the glob to the training call: strata of 0 rows, 1 row
\* and more, any batch size.
InitFit ==
    /\ files \in SplitFiles
    /\ BATCH_SIZE \in 1 .. MaxBatch
    /\ train_csv \in {StrataTable(r, k) : r \in 0 .. MaxFitStratum, k \in 0 .. MaxOtherStratum}
    /\ pc = "glob"
    /\ generators = NoGenerators
    /\ Unassigned

NextFit ==
    \/ GlobCell
    \/ FilterCell
    \/ SplitCell
    \/ ConcatCell
    \/ ConstantsCell
    \/ GeneratorsCell
    \/ FitRequest

SpecFit == InitFit /\ [][NextFit]_vars

\* The same notebook with the epoch hook called on its generators, any number
\* of times, between the batch requests of the epochs.
NextEpochs ==
    \/ GlobCell
    \/ FilterCell
    \/ SplitCell
    \/ ConcatCell
    \/ ConstantsCell
    \/ GeneratorsCell
    \/ FitRequest
    \/ EpochStartStep

SpecEpochs == InitFit /\ [][NextEpochs]_vars

-----------------------------------------------------------------------------
(* Properties *)

AllTilesOnDisk(image_id) == Tiles \subseteq files[image_id]

Rows(table) == Range(table)

ProviderRows(table, p) == {i \in DOMAIN table : table[i].data_provider = p}

HasRadboud(table) == \E i \in DOMAIN table : table[i].data_provider = "radboud"
HasOther(table) == \E i \in DOMAIN table : table[i].data_provider # "radboud"

IsPermutationOf(s, t) == Len(s) = Len(t) /\ Range(s) = Range(t)

\* The generator of the last method call.
Callee == generators[call.gen]

\* C1: after the filter cell a row of the loaded table is retained if and only
\* if all N tile files of its image are on disk.
C1_RetainedIffAllTiles ==
    pc = "split" =>
        \A i \in DOMAIN df : (df[i] \in Rows(train_csv)) <=> AllTilesOnDisk(df[i].image_id)

C3_OutOfRangeNeverReturnsBatch ==
    (call.op = "__getitem__" /\ call.index >= __len__(Callee)) => ret.kind # "batch"

\* C4: len(generator) is floor(rows / batch size), also as returned by a call,
\* and the rows at order positions >= len * batch_size are in the slice of no
\* batch index below len.
C4_LenIsFloor ==
    /\ \A g \in DOMAIN generators :
          LET self == generators[g]
              len == __len__(self)
              rows == Len(self.df)
          IN  /\ len * self.batch_size <= rows
              /\ rows < (len + 1) * self.batch_size
              /\ \A pos \in (len * self.batch_size + 1) .. rows :
                    \A i \in 0 .. (len - 1) :
                        self.indices[pos] \notin Range(BatchIndices(self, i))
    /\ call.op = "__len__" =>
          /\ ret.value * Callee.batch_size <= Len(Callee.df)
          /\ Len(Callee.df) < (ret.value + 1) * Callee.batch_size

\* C4 witness: len() returned a positive count for a table with leftover rows.
C4_Witness ==
    /\ call.op = "__len__"
    /\ ret.value >= 1
    /\ Len(Callee.df) % Callee.batch_size # 0

\* C5 as stated: in the end-to-end scenario the training loader has 2 batches.
C5_TwoTrainingBatches ==
    pc = "ready" =>
        /\ __len__(generators["train_generator"]) = 2
        /\ __len__(generators["valid_generator"]) >= 0

\* C5 amended: in the end-to-end scenario the split goes through, train_df has
\* 8 rows and valid_df 2, so the training loader has 4 batches and the
\* validation loader 1.
C5_FourTrainingBatches ==
    /\ pc # "error"
    /\ pc = "ready" =>
          /\ Len(train_df) = 8 /\ Len(valid_df) = 2
          /\ __len__(generators["train_generator"]) = 4
          /\ __len__(generators["valid_generator"]) = 1
    /\ (call.op = "__len__" /\ call.gen = "train_generator") => ret.value = 4
    /\ (call.op = "__len__" /\ call.gen = "valid_generator") => ret.value = 1

\* C5 witness: len(train_generator) was called in the scenario.
C5_Witness ==
    /\ call.op = "__len__"
    /\ call.gen = "train_generator"
    /\ Len(df) = 10
    /\ BATCH_SIZE = 2

\* C6: in training mode on_epoch_start returns with the order reshuffled into a
\* permutation of the same row indices; in non-training mode it returns with
\* the order unchanged.
C6_HookReshufflesInTraining ==
    [][\A g \in DOMAIN generators :
          on_epoch_start(g) =>
              /\ ret'.kind = "return"
              /\ IF generators[g].is_training
                 THEN IsPermutationOf(generators'[g].indices, generators[g].indices)
                 ELSE generators'[g].indices = generators[g].indices]_vars

\* C7: with every tile on disk, __getitem__(i) for i < len returns batch_size
\* samples, the k-th being the image and the grade of the row at order position
\* i * batch_size + k.
C7_BatchIsSliceWithOwnLabels ==
    (/\ call.op = "__getitem__"
     /\ call.index < __len__(Callee)
     /\ \A i \in DOMAIN Callee.df : AllTilesOnDisk(Callee.df[i].image_id)) =>
        /\ ret.kind = "batch"
        /\ Len(ret.images) = Callee.batch_size
        /\ Len(ret.labels) = Callee.batch_size
        /\ \A k \in 1 .. Callee.batch_size :
              LET row == Callee.df[Callee.indices[call.index * Callee.batch_size + k] + 1]
              IN  /\ ret.images[k] = TileNames(row.image_id)
                  /\ np_argmax(ret.labels[k]) = row.isup_grade

\* C8: an execution of the split cell on the same tables assigns the same
\* r_train, r_test, k_train and k_test as the execution before it.
C8_SplitIsDeterministic ==
    prev_split.run = "done" =>
        /\ prev_split.r_train = r_train
        /\ prev_split.r_test = r_test
        /\ prev_split.k_train = k_train
        /\ prev_split.k_test = k_test

\* C8 witness: the split cell was run twice on strata of more than two rows.
C8_Witness ==
    /\ prev_split.run = "done"
    /\ Len(radboud_csv) >= 3
    /\ Len(karolinska_csv) >= 2

\* C9: every label vector of a returned batch has CLASSES_NUM entries and its
\* argmax is the grade it was built from.
C9_OneHotRoundTrip ==
    (call.op = "__getitem__" /\ ret.kind = "batch") =>
        LET grades == BatchLabels(Callee, call.index)
        IN  /\ Len(ret.labels) = Len(grades)
            /\ \A k \in DOMAIN grades :
                  /\ grades[k] \in Grades
                  /\ Len(ret.labels[k]) = CLASSES_NUM
                  /\ np_argmax(ret.labels[k]) = grades[k]

\* C9 witness: a batch with a label of the highest grade and one of a middle grade.
C9_Witness ==
    /\ call.op = "__getitem__"
    /\ ret.kind = "batch"
    /\ \E k \in DOMAIN ret.labels : np_argmax(ret.labels[k]) = CLASSES_NUM - 1
    /\ \E k \in DOMAIN ret.labels : np_argmax(ret.labels[k]) = 3

\* C10: train_df and valid_df share no row, and together hold every row of the
\* filtered table exactly once.
C10_DisjointPartition ==
    pc = "constants" =>
        /\ Rows(train_df) \cap Rows(valid_df) = {}
        /\ Rows(train_df) \cup Rows(valid_df) = Rows(train_csv)
        /\ Len(train_df) + Len(valid_df) = Len(train_csv)

\* C10 witness: a five-row table, all of it retained, was split and concatenated.
C10_Witness ==
    /\ pc = "constants"
    /\ Len(train_csv) >= 5
    /\ Len(train_df) >= 3
    /\ Len(valid_df) >= 2

\* The image ids of the slice the last __getitem__ call asked for.
CalledIds == BatchImageIds(Callee, call.index)

\* C11 as stated: a read whose slice holds a sample with a missing tile file
\* raises a dedicated missing-asset error, not the generic file-not-found.
C11_MissingTileRaisesMissingAsset ==
    (/\ call.op = "__getitem__"
     /\ \E k \in DOMAIN CalledIds : ~AllTilesOnDisk(CalledIds[k])) =>
        /\ ret.kind = "raise"
        /\ ret.error # "FileNotFoundError"

\* C11 amended: a read whose slice holds a sample with a missing tile file
\* raises the FileNotFoundError of Image.open at the first missing file it comes
\* to, and returns no batch; every tile of every sample of a returned batch is
\* a file on disk (no placeholder stands in for a missing one).
C11_MissingTileRaisesFileNotFound ==
    /\ (/\ call.op = "__getitem__"
        /\ \E k \in DOMAIN CalledIds : ~AllTilesOnDisk(CalledIds[k])) =>
           /\ ret.kind = "raise"
           /\ ret.error = "FileNotFoundError"
           /\ ret.opened # <<>>
           /\ \A j \in DOMAIN ret.opened :
                 LET name == ret.opened[j][2]
                 IN  (name[2] \notin files[name[1]]) <=> (j = Len(ret.opened))
    /\ (call.op = "__getitem__" /\ ret.kind = "batch") =>
           \A k \in DOMAIN ret.images :
               \A i \in DOMAIN ret.images[k] :
                   ret.images[k][i][2] \in files[ret.images[k][i][1]]

\* C11 witness: a read of two samples, the first complete, the second with
\* missing tiles, raised.
C11_Witness ==
    /\ call.op = "__getitem__"
    /\ ret.kind = "raise"
    /\ Len(CalledIds) = 2
    /\ AllTilesOnDisk(CalledIds[1])
    /\ ~AllTilesOnDisk(CalledIds[2])

\* C12: a __getitem__ call, returning or raising, changes no generator (order,
\* table, batch size, directories; a generator has no other attribute, so
\* nothing is cached), no file and no notebook variable; and a read of the same
\* index straight after a read ends the same way, with the identical batch if
\* it returned one.  (The library error of an empty slice is not fixed by the
\* model, so raising reads are compared by kind.)
C12_ReadHasNoSideEffects ==
    [][/\ call'.op = "__getitem__" =>
             /\ generators' = generators
             /\ files' = files
             /\ BATCH_SIZE' = BATCH_SIZE
             /\ pipelineVars' = pipelineVars
       /\ (call.op = "__getitem__" /\ call' = call) =>
             /\ ret'.kind = ret.kind
             /\ ret.kind = "batch" => ret' = ret]_vars

\* C12 witness: a read returned a full batch of two rows from a table of three.
C12_Witness ==
    /\ call.op = "__getitem__"
    /\ ret.kind = "batch"
    /\ Len(ret.images) = 2
    /\ Len(Callee.df) = 3
    /\ Callee.indices = PyRange(3)

\* C13: the filter loop only removes rows: the retained rows and the dropped
\* rows add up to the rows of the loaded table, and every retained row is a row
\* of the loaded table, unaltered, the retained rows in their original relative
\* order (index labels strictly increasing, so none is duplicated).
C13_FilterOnlyRemoves ==
    pc = "split" =>
        LET dropped == {i \in DOMAIN df : df[i] \notin Rows(train_csv)}
        IN  /\ Len(train_csv) + Cardinality(dropped) = Len(df)
            /\ \A i \in DOMAIN train_csv : train_csv[i] \in Rows(df)
            /\ \A i, j \in DOMAIN train_csv :
                  i < j => train_csv[i].index < train_csv[j].index

\* C13 witness: the first row of a three-row table was dropped and the two
\* after it retained.
C13_Witness ==
    /\ pc = "split"
    /\ Len(df) = 3
    /\ Len(train_csv) = 2
    /\ df[1] \notin Rows(train_csv)

\* The cells after the split cell.
AfterSplit == {"concat", "constants", "generators", "ready"}

\* C14: when the radboud rows or the other rows of the filtered table are
\* fewer than 2, the split cell raises ValueError and the notebook stops
\* there: nothing is concatenated, no generator is constructed and no batch is
\* requested by the training call; so past the split cell both strata have 2
\* rows or more, train_df and valid_df hold a row of each stratum, and no
\* generator has an empty table.
C14_SplitDegeneracyStopsAtSplit ==
    /\ (pc \notin {"glob", "filter", "split"}
        /\ (Len(radboud_csv) < 2 \/ Len(karolinska_csv) < 2)) =>
           /\ pc = "error"
           /\ err = "ValueError"
           /\ train_df = NoTable /\ valid_df = NoTable
           /\ generators = NoGenerators
           /\ call = NoCall
    /\ pc \in AfterSplit =>
           /\ r_train # <<>> /\ r_test # <<>>
           /\ k_train # <<>> /\ k_test # <<>>
    /\ pc \in AfterSplit \ {"concat"} =>
           /\ Len(train_df) >= 2
           /\ Len(valid_df) >= 2
    /\ \A g \in DOMAIN generators : generators[g].df # <<>>

\* C14 witness: the split cell raised because the filter had dropped every
\* karolinska row (no tile of their image on disk), the radboud stratum being
\* large enough.
C14_Witness ==
    /\ pc = "error"
    /\ err = "ValueError"
    /\ Len(radboud_csv) >= 2
    /\ Len(karolinska_csv) = 0
    /\ HasOther(df)

\* A pass is under way: some of its batches are read, not all.
PassUnderWay(g) ==
    /\ DOMAIN delivered # {}
    /\ DOMAIN delivered # 0 .. (__len__(generators[g]) - 1)

\* The batches read so far in the pass share no row, and those of a complete
\* pass are together the first len * batch_size entries of the order.
PassPartitionsOrder ==
    \A g \in DOMAIN generators :
        LET self == generators[g]
            len == __len__(self)
        IN  /\ \A i, j \in DOMAIN delivered :
                  i # j => Range(delivered[i]) \cap Range(delivered[j]) = {}
            /\ \A i \in DOMAIN delivered : Cardinality(Range(delivered[i])) = self.batch_size
            /\ DOMAIN delivered = 0 .. (len - 1) =>
                  UNION {Range(delivered[i]) : i \in DOMAIN delivered} =
                      Range(PySlice(self.indices, 0, len * self.batch_size))

\* C15: the loader is unsafe under concurrent shuffle and read: while a pass
\* over a training-mode generator of two rows or more is under way, a call of
\* the epoch hook from another thread can change the order under the readers
\* (whose batches then need not partition it).
C15_HookCanReshuffleDuringPass ==
    \A g \in DOMAIN generators :
        (/\ PassUnderWay(g)
         /\ generators[g].is_training
         /\ Len(generators[g].indices) >= 2) =>
            ENABLED (on_epoch_start(g) /\ generators'[g].indices # generators[g].indices)

\* C15 witness: the epoch hook was called on a training-mode generator between
\* the reads of a pass.
C15_Witness ==
    /\ call.op = "on_epoch_start"
    /\ Callee.is_training
    /\ Len(Callee.indices) >= 2
    /\ PassUnderWay(call.gen)

\* v = ceil(0.2 * n), in integers.
IsCeilOfFifth(v, n) == 5 * (v - 1) < n /\ n <= 5 * v

\* C16: past the split cell each stratum has n >= 2 rows, its validation part
\* ceil(0.2 * n) rows and its training part the other n - ceil(0.2 * n);
\* train_df and valid_df have the sums of these over the two strata.
C16_SplitIsEightyTwenty ==
    /\ pc \in AfterSplit =>
          /\ Len(radboud_csv) >= 2 /\ Len(karolinska_csv) >= 2
          /\ IsCeilOfFifth(Len(r_test), Len(radboud_csv))
          /\ IsCeilOfFifth(Len(k_test), Len(karolinska_csv))
          /\ Len(r_train) = Len(radboud_csv) - Len(r_test)
          /\ Len(k_train) = Len(karolinska_csv) - Len(k_test)
    /\ pc = "constants" =>
          /\ Len(train_df) = Len(r_train) + Len(k_train)
          /\ Len(valid_df) = Len(r_test) + Len(k_test)

\* C16 witness: a stratum of 6 rows was split into 4 training rows and 2
\* validation rows.
C16_Witness ==
    /\ pc = "constants"
    /\ Len(radboud_csv) = 6
    /\ Len(r_test) = 2
    /\ Len(r_train) = 4

\* C17: the j-th file a read opens is tile (j-1) mod N of sample (j-1) div N of
\* its slice, in the image directory: per sample the files <image_id>_<i>.png
\* in increasing i from 0, none from the mask directory; a returned batch has
\* opened exactly N files per sample, and tile i is at position i of the
\* sample's tensor.
C17_TilesReadInOrder ==
    call.op = "__getitem__" =>
        /\ \A j \in DOMAIN ret.opened :
              /\ (j - 1) \div N + 1 \in DOMAIN CalledIds
              /\ ret.opened[j] =
                    <<Callee.img_dir, <<CalledIds[(j - 1) \div N + 1], (j - 1) % N>>>>
              /\ ret.opened[j][1] # Callee.mask_dir
        /\ ret.kind = "batch" =>
              /\ Len(ret.opened) = N * Len(CalledIds)
              /\ \A k \in DOMAIN CalledIds :
                    /\ Len(ret.images[k]) = N
                    /\ \A i \in Tiles : ret.images[k][i + 1] = <<CalledIds[k], i>>

\* C17 witness: a returned batch of two samples of different images.
C17_Witness ==
    /\ call.op = "__getitem__"
    /\ ret.kind = "batch"
    /\ Len(CalledIds) = 2
    /\ CalledIds[1] # CalledIds[2]
    /\ Len(ret.opened) = 2 * N

\* C18: every label of a returned batch is the grade of the row its sample was
\* taken from (the row at the sample's position of the order), whatever the
\* table, tables with a repeated image_id included.
C18_LabelIsOwnRowsGrade ==
    (call.op = "__getitem__" /\ ret.kind = "batch") =>
        LET rows == BatchIndices(Callee, call.index)
        IN  \A k \in DOMAIN ret.labels :
                np_argmax(ret.labels[k]) = Callee.df[rows[k] + 1].isup_grade

\* C19: whatever hook calls and reads came before, the order of every generator
\* is a permutation of 0 .. rows-1, and the slices of the batch indices
\* 0 .. len-1 each hold batch_size distinct rows, are pairwise disjoint and
\* together are the first len * batch_size entries of the order; a read of an
\* index below len that returns delivers batch_size samples.
C19_BatchesPartitionTheOrder ==
    /\ \A g \in DOMAIN generators :
          LET self == generators[g]
              len == __len__(self)
              slice(i) == Range(BatchIndices(self, i))
          IN  /\ IsPermutationOf(self.indices, PyRange(Len(self.df)))
              /\ \A i \in 0 .. (len - 1) :
                    /\ Len(BatchIndices(self, i)) = self.batch_size
                    /\ Cardinality(slice(i)) = self.batch_size
              /\ \A i, j \in 0 .. (len - 1) : i # j => slice(i) \cap slice(j) = {}
              /\ UNION {slice(i) : i \in 0 .. (len - 1)} =
                    Range(PySlice(self.indices, 0, len * self.batch_size))
    /\ (call.op = "__getitem__" /\ call.index < __len__(Callee) /\ ret.kind = "batch") =>
          Len(ret.images) = Callee.batch_size

\* C19 witness: the epoch hook was called on a training-mode generator of
\* three rows and three batches.
C19_Witness ==
    /\ call.op = "on_epoch_start"
    /\ Callee.is_training
    /\ Len(Callee.df) = 3
    /\ __len__(Callee) = 3

\* C20: once the generators are constructed STEPS_PER_EPOCH is
\* len(train_generator) and VALIDATION_STEPS is len(valid_generator), and every
\* batch index the training loop requests is below the length of the generator
\* it is requested from.
C20_StepsAreGeneratorLengths ==
    /\ pc = "ready" =>
          /\ STEPS_PER_EPOCH = __len__(generators["train_generator"])
          /\ VALIDATION_STEPS = __len__(generators["valid_generator"])
    /\ call.op = "__getitem__" => call.index < __len__(Callee)

\* C20 witness: the training loop requested the last batch of an epoch from a
\* training table with leftover rows.
C20_Witness ==
    /\ call.op = "__getitem__"
    /\ call.gen = "train_generator"
    /\ call.index = STEPS_PER_EPOCH - 1
    /\ call.index >= 1
    /\ Len(train_df) % BATCH_SIZE # 0

\* C21: once valid_generator is constructed no step changes its order, a call
\* of the epoch hook on it included (whether the call returns or raises), so
\* the rows of every batch index of the validation loader are the same from
\* one epoch to the next.
C21_ValidationOrderNeverReshuffled ==
    [][("valid_generator" \in DOMAIN generators) =>
          LET before == generators["valid_generator"]
              after == generators'["valid_generator"]
          IN  /\ after.indices = before.indices
              /\ \A i \in 0 .. MaxIndex :
                    BatchIndices(after, i) = BatchIndices(before, i)]_vars

\* C21 witness: the epoch hook was called on valid_generator, which the
\* notebook constructs in training mode, over a validation table of two rows
\* or more.
C21_Witness ==
    /\ call.op = "on_epoch_start"
    /\ call.gen = "valid_generator"
    /\ Callee.is_training
    /\ Len(Callee.indices) >= 2
    /\ Callee.indices = PyRange(Len(valid_df))

=============================================================================
